---- MODULE Spec2Model ----
(***************************************************************************)
(* Adaptive query-processing pipeline of ragbase: the text normalizer and  *)
(* the complexity scorer (ragbase/optimizers.py), the LLM factory          *)
(* (ragbase/model.py), chain construction and rebinding and the streaming  *)
(* orchestrator ask_question (ragbase/chain.py), driven by the application *)
(* (app.py).                                                               *)
(*                                                                         *)
(* A text is a sequence of one-character strings.  Weights and scores are  *)
(* kept as exact integers: weights in tenths, scores as numerators over a  *)
(* common denominator; where the exact score lies on the threshold the     *)
(* score is computed as the float the code computes.                       *)
(***************************************************************************)
EXTENDS Integers, Sequences, FiniteSets, TLC

(***************************************************************************)
(* Bounds of the model.                                                    *)
(***************************************************************************)
\* Largest number of generation chunks (on_chain_stream events) in a turn.
MaxChunks == 2

(***************************************************************************)
(* Text primitives (Python str and re semantics).                          *)
(***************************************************************************)
\* Characters matched by the regex class \s and removed by str.strip().
Whitespace == {" ", "\t", "\n"}

\* The separators of re.split(r'[.!?]', query).
SentenceEnd == {".", "!", "?"}

UpperCase ==
  <<"A","B","C","D","E","F","G","H","I","J","K","L","M",
    "N","O","P","Q","R","S","T","U","V","W","X","Y","Z">>

LowerCase ==
  <<"a","b","c","d","e","f","g","h","i","j","k","l","m",
    "n","o","p","q","r","s","t","u","v","w","x","y","z">>

\* str.lower() on one character.
LowerChar(c) ==
  IF \E i \in 1..Len(UpperCase) : UpperCase[i] = c
  THEN LowerCase[CHOOSE i \in 1..Len(UpperCase) : UpperCase[i] = c]
  ELSE c

\* str.lower()
Lower(s) == [i \in 1..Len(s) |-> LowerChar(s[i])]

\* The Python test `sub in s` on strings.
Contains(sub, s) ==
  \/ sub = <<>>
  \/ \E i \in 0..(Len(s) - Len(sub)) :
       /\ s[i + 1] = sub[1]
       /\ SubSeq(s, i + 1, i + Len(sub)) = sub

\* The least element of a nonempty set of integers.
Least(S) == CHOOSE x \in S : \A y \in S : x <= y

\* Length of the run of characters of `chars` that starts at position i.
RunLen(s, i, chars) ==
  LET stops == { j \in i..Len(s) : s[j] \notin chars }
  IN  (IF stops = {} THEN Len(s) + 1 ELSE Least(stops)) - i

\* The scan of re.sub from position i on: the text up to the next run of at
\* least minLen characters of `chars` is copied, the run is replaced.
RECURSIVE SubFrom(_, _, _, _, _)
SubFrom(s, i, chars, minLen, repl) ==
  LET starts == { j \in i..Len(s) : RunLen(s, j, chars) >= minLen }
  IN  IF starts = {} THEN SubSeq(s, i, Len(s))
      ELSE LET j == Least(starts)
           IN  SubSeq(s, i, j - 1) \o repl
               \o SubFrom(s, j + RunLen(s, j, chars), chars, minLen, repl)

\* re.sub(r'[chars]{minLen,}', repl, s): every leftmost-longest run of at
\* least minLen characters of `chars` is replaced by repl.
ReSub(chars, minLen, repl, s) == SubFrom(s, 1, chars, minLen, repl)

RECURSIVE LStrip(_)
LStrip(s) ==
  IF s # <<>> /\ Head(s) \in Whitespace THEN LStrip(Tail(s)) ELSE s

RECURSIVE RStrip(_)
RStrip(s) ==
  IF s # <<>> /\ s[Len(s)] \in Whitespace
  THEN RStrip(SubSeq(s, 1, Len(s) - 1))
  ELSE s

\* str.strip()
Strip(s) == RStrip(LStrip(s))

\* The scan of re.split from position i on: the piece up to the next
\* separator, then the pieces after it.
RECURSIVE SplitFrom(_, _, _)
SplitFrom(s, i, seps) ==
  LET cuts == { j \in i..Len(s) : s[j] \in seps }
  IN  IF cuts = {} THEN << SubSeq(s, i, Len(s)) >>
      ELSE << SubSeq(s, i, Least(cuts) - 1) >>
           \o SplitFrom(s, Least(cuts) + 1, seps)

\* re.split(r'[seps]', s): the pieces between separators, empty ones included.
ReSplit(seps, s) == SplitFrom(s, 1, seps)

\* len(s.split()): the number of maximal runs of non-whitespace characters.
WordCount(s) ==
  Cardinality({i \in 1..Len(s) :
                 /\ s[i] \notin Whitespace
                 /\ (i = 1 \/ s[i - 1] \in Whitespace)})

\* The position a slice bound i denotes in a str of n characters: a negative
\* bound counts from the end, and every bound is clamped to 0..n.
SliceBound(i, n) ==
  IF i < 0 THEN (IF n + i < 0 THEN 0 ELSE n + i)
  ELSE (IF i > n THEN n ELSE i)

\* s[start:stop]
Slice(s, start, stop) ==
  SubSeq(s, SliceBound(start, Len(s)) + 1, SliceBound(stop, Len(s)))

(***************************************************************************)
(* TokenOptimizationPipeline                                               *)
(***************************************************************************)
\* Variant: a run of '!' and '?' mixed is replaced as one run.
optimize_prompt_merged(prompt) ==
  LET p1 == ReSub(Whitespace, 1, <<" ">>, prompt)
      p2 == Strip(p1)
      p3 == ReSub({"."}, 2, <<".", ".", ".">>, p2)
      p4 == ReSub({"!", "?"}, 2, <<"?">>, p3)
  IN  p4

\* Variant: a run of '!' is replaced by '!' and a space.
optimize_prompt_spaced(prompt) ==
  LET p1 == ReSub(Whitespace, 1, <<" ">>, prompt)
      p2 == Strip(p1)
      p3 == ReSub({"."}, 2, <<".", ".", ".">>, p2)
      p4 == ReSub({"!"}, 2, <<"!", " ">>, p3)
      p5 == ReSub({"?"}, 2, <<"?">>, p4)
  IN  p5

\* re.sub(r'\s+', ' ', prompt).strip(), then runs of two or more '.', '!',
\* '?' replaced by '...', '!', '?'.
optimize_prompt(prompt) ==
  LET p1 == ReSub(Whitespace, 1, <<" ">>, prompt)
      p2 == Strip(p1)
      p3 == ReSub({"."}, 2, <<".", ".", ".">>, p2)
      p4 == ReSub({"!"}, 2, <<"!">>, p3)
      p5 == ReSub({"?"}, 2, <<"?">>, p4)
  IN  p5

\* TokenOptimizationPipeline.truncate_text(text, max_length); text[-n:] is
\* the slice from the bound -n, which is the bound 0 when n = 0.
truncate_text(text, max_length) ==
  IF Len(text) <= max_length THEN text
  ELSE LET intro_length      == max_length \div 3
           conclusion_length == max_length \div 3
           middle_length     == max_length - intro_length - conclusion_length
           intro             == Slice(text, 0, intro_length)
           conclusion        == Slice(text, 0 - conclusion_length, Len(text))
       IN  intro \o <<".", ".", ".">>
           \o Slice(text, Len(text) - middle_length - conclusion_length,
                    0 - conclusion_length)
           \o conclusion

(***************************************************************************)
(* DynamicComplexityRouter: tables                                         *)
(***************************************************************************)
COMPLEXITY_INDICATORS ==
  <<
    <<"a","n","a","l","y","z","e">>,  \* "analyze"
    <<"s","y","n","t","h","e","s","i","z","e">>,  \* "synthesize"
    <<"e","v","a","l","u","a","t","e">>,  \* "evaluate"
    <<"c","o","m","p","a","r","e">>,  \* "compare"
    <<"c","o","n","t","r","a","s","t">>,  \* "contrast"
    <<"i","m","p","l","i","c","a","t","i","o","n","s">>,  \* "implications"
    <<"c","o","n","s","e","q","u","e","n","c","e","s">>,  \* "consequences"
    <<"r","e","l","a","t","i","o","n","s","h","i","p"," ","b","e","t","w","e","e","n">>,  \* "relationship between"
    <<"m","u","l","t","i","-","s","t","e","p">>,  \* "multi-step"
    <<"c","o","m","p","l","e","x">>,  \* "complex"
    <<"r","e","a","s","o","n","i","n","g">>,  \* "reasoning"
    <<"w","h","y">>,  \* "why"
    <<"h","o","w"," ","d","o","e","s">>,  \* "how does"
    <<"e","x","p","l","a","i","n"," ","i","n"," ","d","e","t","a","i","l">>,  \* "explain in detail"
    <<"e","l","a","b","o","r","a","t","e">>,  \* "elaborate"
    <<"w","h","a","t"," ","w","o","u","l","d"," ","h","a","p","p","e","n"," ","i","f">>,  \* "what would happen if"
    <<"c","r","i","t","i","c","a","l","l","y">>,  \* "critically"
    <<"a","r","g","u","m","e","n","t">>,  \* "argument"
    <<"e","v","i","d","e","n","c","e">>,  \* "evidence"
    <<"t","h","e","o","r","y">>,  \* "theory"
    <<"h","y","p","o","t","h","e","s","i","s">>,  \* "hypothesis"
    <<"i","n","f","e","r">>,  \* "infer"
    <<"d","e","d","u","c","e">>,  \* "deduce"
    <<"p","r","o","v","e">>,  \* "prove"
    <<"c","o","n","c","e","p","t">>,  \* "concept"
    <<"d","i","s","c","u","s","s">>,  \* "discuss"
    <<"e","x","p","l","o","r","e">>,  \* "explore"
    <<"t","e","c","h","n","i","c","a","l">>,  \* "technical"
    <<"s","c","i","e","n","t","i","f","i","c">>,  \* "scientific"
    <<"m","a","t","h","e","m","a","t","i","c","a","l">>,  \* "mathematical"
    <<"a","l","g","o","r","i","t","h","m">>,  \* "algorithm"
    <<"a","r","c","h","i","t","e","c","t","u","r","e">>,  \* "architecture"
    <<"f","r","a","m","e","w","o","r","k">>,  \* "framework"
    <<"i","m","p","l","e","m","e","n","t","a","t","i","o","n">>,  \* "implementation"
    <<"m","e","t","h","o","d","o","l","o","g","y">>,  \* "methodology"
    <<"m","e","c","h","a","n","i","s","m">>,  \* "mechanism"
    <<"a","p","p","r","o","a","c","h">>,  \* "approach"
    <<"s","t","a","t","i","s","t","i","c","s">>,  \* "statistics"
    <<"c","o","r","r","e","l","a","t","i","o","n">>,  \* "correlation"
    <<"p","h","i","l","o","s","o","p","h","i","c","a","l">>,  \* "philosophical"
    <<"e","t","h","i","c","a","l">>,  \* "ethical"
    <<"m","o","r","a","l">>,  \* "moral"
    <<"m","e","t","a","p","h","y","s","i","c","a","l">>,  \* "metaphysical"
    <<"e","p","i","s","t","e","m","o","l","o","g","i","c","a","l">>,  \* "epistemological"
    <<"c","o","n","s","c","i","o","u","s","n","e","s","s">>,  \* "consciousness"
    <<"e","x","i","s","t","e","n","c","e">>,  \* "existence"
    <<"m","e","a","n","i","n","g">>,  \* "meaning"
    <<"p","u","r","p","o","s","e">>,  \* "purpose"
    <<"f","r","e","e"," ","w","i","l","l">>,  \* "free will"
    <<"d","e","t","e","r","m","i","n","i","s","m">>,  \* "determinism"
    <<"r","e","l","a","t","i","v","i","s","m">>,  \* "relativism"
    <<"u","t","i","l","i","t","a","r","i","a","n","i","s","m">>,  \* "utilitarianism"
    <<"d","e","o","n","t","o","l","o","g","i","c","a","l">>,  \* "deontological"
    <<"v","i","r","t","u","e"," ","e","t","h","i","c","s">>,  \* "virtue ethics"
    <<"s","o","c","i","a","l"," ","c","o","n","t","r","a","c","t">>,  \* "social contract"
    <<"r","i","g","h","t","s">>,  \* "rights"
    <<"j","u","s","t","i","c","e">>,  \* "justice"
    <<"d","i","a","l","e","c","t","i","c">>,  \* "dialectic"
    <<"o","n","t","o","l","o","g","y">>,  \* "ontology"
    <<"p","h","e","n","o","m","e","n","o","l","o","g","y">>,  \* "phenomenology"
    <<"h","e","r","m","e","n","e","u","t","i","c","s">>,  \* "hermeneutics"
    <<"c","o","n","s","i","d","e","r","a","t","i","o","n","s">>,  \* "considerations"
    <<"i","m","p","l","i","c","a","t","i","o","n","s">>,  \* "implications"
    <<"p","a","r","a","d","o","x">>,  \* "paradox"
    <<"d","i","l","e","m","m","a">>,  \* "dilemma"
    <<"d","i","m","e","n","s","i","o","n","s">>,  \* "dimensions"
    <<"a","s","p","e","c","t","s">>,  \* "aspects"
    <<"a","u","t","o","n","o","m","y">>,  \* "autonomy"
    <<"a","u","t","o","n","o","m","o","u","s">>,  \* "autonomous"
    <<"r","e","l","a","t","e">>,  \* "relate"
    <<"c","o","n","n","e","c","t","i","o","n">>,  \* "connection"
    <<"r","e","l","a","t","i","o","n","s","h","i","p">>,  \* "relationship"
    <<"i","m","p","a","c","t">>,  \* "impact"
    <<"d","o","m","a","i","n"," ","k","n","o","w","l","e","d","g","e">>,  \* "domain knowledge"
    <<"s","p","e","c","i","a","l","i","z","e","d">>,  \* "specialized"
    <<"e","x","p","e","r","t">>,  \* "expert"
    <<"d","i","s","c","i","p","l","i","n","e">>,  \* "discipline"
    <<"p","a","r","a","d","i","g","m">>,  \* "paradigm"
    <<"s","c","h","o","o","l"," ","o","f"," ","t","h","o","u","g","h","t">>,  \* "school of thought"
    <<"p","e","r","s","p","e","c","t","i","v","e">>,  \* "perspective"
    <<"w","o","r","l","d","v","i","e","w">>   \* "worldview"
  >>

COMPLEX_PHRASES ==
  <<
    <<"f","r","e","e"," ","w","i","l","l">>,  \* "free will"
    <<"m","o","r","a","l"," ","d","i","m","e","n","s","i","o","n">>,  \* "moral dimension"
    <<"e","t","h","i","c","a","l"," ","i","m","p","l","i","c","a","t","i","o","n">>,  \* "ethical implication"
    <<"p","h","i","l","o","s","o","p","h","i","c","a","l"," ","i","s","s","u","e">>,  \* "philosophical issue"
    <<"a","u","t","o","n","o","m","o","u","s"," ","s","y","s","t","e","m">>,  \* "autonomous system"
    <<"c","o","n","s","c","i","o","u","s","n","e","s","s"," ","i","n">>,  \* "consciousness in"
    <<"d","e","t","e","r","m","i","n","i","s","t","i","c"," ","m","o","d","e","l">>,  \* "deterministic model"
    <<"c","a","u","s","a","l"," ","r","e","l","a","t","i","o","n","s","h","i","p">>,  \* "causal relationship"
    <<"r","e","l","a","t","e"," ","t","o">>,  \* "relate to"
    <<"c","o","n","n","e","c","t","i","o","n"," ","b","e","t","w","e","e","n">>,  \* "connection between"
    <<"d","i","m","e","n","s","i","o","n","s"," ","o","f">>,  \* "dimensions of"
    <<"a","s","p","e","c","t","s"," ","o","f">>   \* "aspects of"
  >>

TERM_WEIGHTS ==
  <<
    <<<<"p","h","i","l","o","s","o","p","h","i","c","a","l">>, 30>>,  \* "philosophical": 3.0
    <<<<"e","t","h","i","c","a","l">>, 30>>,  \* "ethical": 3.0
    <<<<"e","p","i","s","t","e","m","o","l","o","g","i","c","a","l">>, 30>>,  \* "epistemological": 3.0
    <<<<"o","n","t","o","l","o","g","y">>, 30>>,  \* "ontology": 3.0
    <<<<"m","e","t","a","p","h","y","s","i","c","a","l">>, 30>>,  \* "metaphysical": 3.0
    <<<<"c","o","n","s","c","i","o","u","s","n","e","s","s">>, 30>>,  \* "consciousness": 3.0
    <<<<"f","r","e","e"," ","w","i","l","l">>, 30>>,  \* "free will": 3.0
    <<<<"m","o","r","a","l"," ","d","i","m","e","n","s","i","o","n">>, 30>>,  \* "moral dimension": 3.0
    <<<<"e","t","h","i","c","a","l"," ","i","m","p","l","i","c","a","t","i","o","n">>, 30>>,  \* "ethical implication": 3.0
    <<<<"d","e","t","e","r","m","i","n","i","s","m">>, 30>>,  \* "determinism": 3.0
    <<<<"a","n","a","l","y","z","e">>, 20>>,  \* "analyze": 2.0
    <<<<"s","y","n","t","h","e","s","i","z","e">>, 20>>,  \* "synthesize": 2.0
    <<<<"e","v","a","l","u","a","t","e">>, 20>>,  \* "evaluate": 2.0
    <<<<"e","x","p","l","o","r","e">>, 20>>,  \* "explore": 2.0
    <<<<"d","i","s","c","u","s","s">>, 20>>,  \* "discuss": 2.0
    <<<<"c","o","m","p","l","e","x">>, 18>>,  \* "complex": 1.8
    <<<<"t","h","e","o","r","y">>, 18>>,  \* "theory": 1.8
    <<<<"i","m","p","l","i","c","a","t","i","o","n","s">>, 18>>,  \* "implications": 1.8
    <<<<"c","o","n","s","i","d","e","r","a","t","i","o","n","s">>, 18>>,  \* "considerations": 1.8
    <<<<"p","a","r","a","d","o","x">>, 18>>,  \* "paradox": 1.8
    <<<<"d","i","l","e","m","m","a">>, 18>>,  \* "dilemma": 1.8
    <<<<"m","o","r","a","l">>, 18>>,  \* "moral": 1.8
    <<<<"d","i","m","e","n","s","i","o","n","s">>, 18>>,  \* "dimensions": 1.8
    <<<<"a","u","t","o","n","o","m","o","u","s">>, 18>>,  \* "autonomous": 1.8
    <<<<"r","e","l","a","t","e">>, 18>>   \* "relate": 1.8
  >>

\* Default weight of a single-word indicator (1.0) and of a phrase (2.0),
\* the topic boost (1.5) and the divisor of the indicator score (6), in tenths.
DefaultTermWeight == 10

DefaultPhraseWeight == 20

TopicBoost == 15

IndicatorDivisor == 60

AI_TERMS ==
  << <<"a","i">>,
     <<"a","r","t","i","f","i","c","i","a","l"," ",
       "i","n","t","e","l","l","i","g","e","n","c","e">> >>

ETHICS_TERMS ==
  << <<"e","t","h","i","c","s">>,
     <<"e","t","h","i","c","a","l">>,
     <<"m","o","r","a","l">>,
     <<"p","h","i","l","o","s","o","p","h","y">>,
     <<"c","o","n","s","c","i","o","u","s","n","e","s","s">>,
     <<"f","r","e","e"," ","w","i","l","l">>,
     <<"d","e","t","e","r","m","i","n","i","s","m">> >>

(***************************************************************************)
(* DynamicComplexityRouter.assess_complexity                               *)
(***************************************************************************)
\* Variant: every term weighs nothing.
TermWeight_zero(term, default) == 0

\* cls.TERM_WEIGHTS.get(term, default), in tenths.
TermWeight(term, default) ==
  IF \E i \in 1..Len(TERM_WEIGHTS) : TERM_WEIGHTS[i][1] = term
  THEN TERM_WEIGHTS[CHOOSE i \in 1..Len(TERM_WEIGHTS) : TERM_WEIGHTS[i][1] = term][2]
  ELSE default

\* One pass of `for x in table: if x in query: indicator_count += weight`
\* over the entries lo..hi of the table; the sum is taken by halves.
RECURSIVE WeightedMatches(_, _, _, _, _)
WeightedMatches(table, lo, hi, default, query) ==
  IF lo > hi THEN 0
  ELSE IF lo = hi
       THEN (IF Contains(table[lo], query)
             THEN TermWeight(table[lo], default) ELSE 0)
       ELSE LET mid == (lo + hi) \div 2
            IN  WeightedMatches(table, lo, mid, default, query)
                + WeightedMatches(table, mid + 1, hi, default, query)

AnyIn(terms, query) == \E i \in 1..Len(terms) : Contains(terms[i], query)

\* The condition of the topic boost on a lower-cased query.
TopicBoostApplies(query) ==
  AnyIn(AI_TERMS, query) /\ AnyIn(ETHICS_TERMS, query)

\* indicator_count of a lower-cased query, in tenths.
IndicatorCount(query) ==
  WeightedMatches(COMPLEXITY_INDICATORS, 1, Len(COMPLEXITY_INDICATORS),
                  DefaultTermWeight, query)
  + WeightedMatches(COMPLEX_PHRASES, 1, Len(COMPLEX_PHRASES),
                    DefaultPhraseWeight, query)
  + (IF TopicBoostApplies(query) THEN TopicBoost ELSE 0)

\* sentences = [s.strip() for s in re.split(r'[.!?]', query) if s.strip()]
Sentences(query) ==
  LET parts == ReSplit(SentenceEnd, query)
  IN  SelectSeq([i \in 1..Len(parts) |-> Strip(parts[i])], LAMBDA s : s # <<>>)

RECURSIVE TotalWords(_, _)
TotalWords(sentences, i) ==
  IF i > Len(sentences) THEN 0
  ELSE WordCount(sentences[i]) + TotalWords(sentences, i + 1)

Min(a, b) == IF a <= b THEN a ELSE b

\* Variant: the first argument, whatever the second.
Max_first(a, b) == a

Max(a, b) == IF a >= b THEN a ELSE b

(***************************************************************************)
(* Python float arithmetic (IEEE 754 binary64, round to nearest, ties to   *)
(* even).  A natural number of any size is a sequence of limbs of LimbBits *)
(* bits, the least significant first, without a zero limb at the top; a    *)
(* float is a record [m, e] of value m * 2^e with m of 53 bits, or Zero.   *)
(* The values of the scorer lie far from the subnormal and the overflow    *)
(* range, which are left out.                                              *)
(***************************************************************************)
LimbBits == 13

LimbBase == 2 ^ LimbBits

Greatest(S) == CHOOSE x \in S : \A y \in S : x >= y

BigTrim(a) ==
  LET nz == { i \in 1..Len(a) : a[i] # 0 }
  IN  IF nz = {} THEN <<>> ELSE SubSeq(a, 1, Greatest(nz))

\* A natural number below 2^31 as limbs.
BigFromNat(n) ==
  BigTrim(<< n % LimbBase, (n \div LimbBase) % LimbBase,
             n \div (LimbBase * LimbBase) >>)

BigLimb(a, i) == IF i \in 1..Len(a) THEN a[i] ELSE 0

RECURSIVE BigAddFrom(_, _, _, _)
BigAddFrom(a, b, i, carry) ==
  IF i > Len(a) /\ i > Len(b)
  THEN (IF carry = 0 THEN <<>> ELSE << carry >>)
  ELSE LET t == BigLimb(a, i) + BigLimb(b, i) + carry
       IN  << t % LimbBase >> \o BigAddFrom(a, b, i + 1, t \div LimbBase)

BigAdd(a, b) == BigAddFrom(a, b, 1, 0)

\* a * m for a natural number m below 2^17.
RECURSIVE BigMulSmallFrom(_, _, _, _)
BigMulSmallFrom(a, m, i, carry) ==
  IF i > Len(a) THEN BigFromNat(carry)
  ELSE LET t == a[i] * m + carry
       IN  << t % LimbBase >> \o BigMulSmallFrom(a, m, i + 1, t \div LimbBase)

BigMulSmall(a, m) == BigTrim(BigMulSmallFrom(a, m, 1, 0))

\* a * LimbBase^k
BigShiftLimbs(a, k) == IF a = <<>> THEN <<>> ELSE [i \in 1..k |-> 0] \o a

RECURSIVE BigMulFrom(_, _, _)
BigMulFrom(a, b, i) ==
  IF i > Len(b) THEN <<>>
  ELSE BigAdd(BigShiftLimbs(BigMulSmall(a, b[i]), i - 1),
              BigMulFrom(a, b, i + 1))

BigMul(a, b) == BigMulFrom(a, b, 1)

\* a * 2^k
BigShiftLeft(a, k) ==
  BigShiftLimbs(BigMulSmall(a, 2 ^ (k % LimbBits)), k \div LimbBits)

\* a \div 2^k
BigShiftRight(a, k) ==
  LET high == SubSeq(a, (k \div LimbBits) + 1, Len(a))
      r    == k % LimbBits
  IN  BigTrim([i \in 1..Len(high) |->
                 (high[i] \div (2 ^ r))
                 + (BigLimb(high, i + 1) % (2 ^ r)) * (2 ^ (LimbBits - r))])

\* The bit of weight 2^k of a.
BigBit(a, k) ==
  (BigLimb(a, (k \div LimbBits) + 1) \div (2 ^ (k % LimbBits))) % 2

\* a % 2^k # 0
BigLowBitsSet(a, k) ==
  \/ \E i \in 1..Len(a) : i <= k \div LimbBits /\ a[i] # 0
  \/ BigLimb(a, (k \div LimbBits) + 1) % (2 ^ (k % LimbBits)) # 0

BigBitLen(a) ==
  IF a = <<>> THEN 0
  ELSE (Len(a) - 1) * LimbBits
       + (CHOOSE k \in 1..LimbBits :
            2 ^ (k - 1) <= a[Len(a)] /\ a[Len(a)] < 2 ^ k)

\* Quotient and remainder of a by a natural number d, 0 < d < 2^17, taking
\* the limbs i, i - 1, ..., 1 of a after the remainder rem of the upper ones.
RECURSIVE BigDivFrom(_, _, _, _)
BigDivFrom(a, d, i, rem) ==
  IF i = 0 THEN [q |-> <<>>, r |-> rem]
  ELSE LET cur   == rem * LimbBase + a[i]
           lower == BigDivFrom(a, d, i - 1, cur % d)
       IN  [q |-> lower.q \o << cur \div d >>, r |-> lower.r]

BigDivSmall(a, d) ==
  LET x == BigDivFrom(a, d, Len(a), 0)
  IN  [q |-> BigTrim(x.q), r |-> x.r]

\* -1, 0 or 1 as a is below, equal to or above b.
BigCmp(a, b) ==
  IF Len(a) # Len(b) THEN (IF Len(a) < Len(b) THEN 0 - 1 ELSE 1)
  ELSE LET diff == { i \in 1..Len(a) : a[i] # b[i] }
       IN  IF diff = {} THEN 0
           ELSE IF a[Greatest(diff)] < b[Greatest(diff)] THEN 0 - 1 ELSE 1

MantissaBits == 53

Zero == [m |-> <<>>, e |-> 0]

\* The float m * 2^e for a mantissa of MantissaBits bits or one bit more.
Renormalised(m, e) ==
  IF BigBitLen(m) > MantissaBits
  THEN [m |-> BigShiftRight(m, 1), e |-> e + 1]
  ELSE [m |-> m, e |-> e]

\* Round to nearest, ties to even: m0 is the mantissa cut off, half the
\* first bit dropped, rest whether anything nonzero follows it.
RoundMantissa(m0, half, rest, e) ==
  Renormalised(IF half /\ (rest \/ BigBit(m0, 0) = 1)
               THEN BigAdd(m0, << 1 >>) ELSE m0, e)

\* Cut the lowest drop bits off q; inexact: q is itself a quotient with a
\* remainder.
RoundDropping(q, inexact, drop, e) ==
  RoundMantissa(BigShiftRight(q, drop), BigBit(q, drop - 1) = 1,
                BigLowBitsSet(q, drop - 1) \/ inexact, e + drop)

RoundQuotient(dv, e) ==
  RoundDropping(dv.q, dv.r # 0, BigBitLen(dv.q) - MantissaBits, e)

\* The quotient is taken of n * 2^s, which has 80 bits or more.
RoundScaled(n, d, e, s) ==
  RoundQuotient(BigDivSmall(BigShiftLeft(n, s), d), e - s)

\* The float nearest to (n / d) * 2^e, ties to the even mantissa; n a
\* natural number as limbs, d a natural number, 0 < d < 2^17.
RoundToFloat(n, d, e) ==
  IF n = <<>> THEN Zero
  ELSE RoundScaled(n, d, e,
                   IF BigBitLen(n) < 80 THEN 80 - BigBitLen(n) ELSE 0)

\* int / int and the float of a decimal literal n / d
FloatQuotient(n, d) == RoundToFloat(BigFromNat(n), d, 0)

\* float / int
FloatDiv(a, d) == RoundToFloat(a.m, d, a.e)

FloatMul(a, b) ==
  IF a = Zero \/ b = Zero THEN Zero
  ELSE RoundToFloat(BigMul(a.m, b.m), 1, a.e + b.e)

FloatAdd(a, b) ==
  IF a = Zero THEN b
  ELSE IF b = Zero THEN a
  ELSE LET e == IF a.e < b.e THEN a.e ELSE b.e
       IN  RoundToFloat(BigAdd(BigShiftLeft(a.m, a.e - e),
                               BigShiftLeft(b.m, b.e - e)), 1, e)

\* a < b
FloatLess(a, b) ==
  IF b = Zero THEN FALSE
  ELSE IF a = Zero THEN TRUE
  ELSE LET e == IF a.e < b.e THEN a.e ELSE b.e
       IN  BigCmp(BigShiftLeft(a.m, a.e - e), BigShiftLeft(b.m, b.e - e)) < 0

\* min(a, 1.0)
FloatMinOne(a) ==
  IF FloatLess(FloatQuotient(1, 1), a) THEN FloatQuotient(1, 1) ELSE a

\* The three component scores and their combination, as exact fractions:
\*   length_score    = lengthNum / 200
\*   indicator_score = indicatorNum / 60
\*   sentence_score  = sentenceNum / (20 * sentenceDen)
\*   complexity_score = scoreNum / scoreDen
Assessment(question) ==
  LET query       == Lower(question)
      lengthNum   == Min(Len(query), 200)
      count       == IndicatorCount(query)
      indicatorNum == Min(count, IndicatorDivisor)
      sentences   == Sentences(query)
      sentenceDen == Max(Len(sentences), 1)
      words       == TotalWords(sentences, 1)
      sentenceNum == Min(words, 20 * sentenceDen)
      scoreDen    == 6000 * sentenceDen
      scoreNum    == 6 * sentenceDen * lengthNum
                     + 70 * sentenceDen * indicatorNum
                     + 30 * sentenceNum
  IN  [indicator_count |-> count,
       lengthNum |-> lengthNum,
       indicatorNum |-> indicatorNum,
       sentenceNum |-> sentenceNum,
       sentenceDen |-> sentenceDen,
       scoreNum |-> scoreNum,
       scoreDen |-> scoreDen]

\* The weights, in tenths, one pass of `for x in table: if x in query:` adds
\* to indicator_count, in the order it adds them.
MatchedWeights(table, default, query) ==
  LET hits == SelectSeq(table, LAMBDA x : Contains(x, query))
  IN  [i \in 1..Len(hits) |-> TermWeight(hits[i], default)]

\* indicator_count += weight, for the weights i.. of the sequence.
RECURSIVE FloatSumFrom(_, _, _)
FloatSumFrom(weights, i, acc) ==
  IF i > Len(weights) THEN acc
  ELSE FloatSumFrom(weights, i + 1,
                    FloatAdd(acc, FloatQuotient(weights[i], 10)))

\* complexity_score as the float the statements of assess_complexity compute.
complexity_score(question) ==
  LET query           == Lower(question)
      length_score    == FloatMinOne(FloatQuotient(Len(query), 200))
      weights         == MatchedWeights(COMPLEXITY_INDICATORS,
                                        DefaultTermWeight, query)
                         \o MatchedWeights(COMPLEX_PHRASES,
                                           DefaultPhraseWeight, query)
                         \o (IF TopicBoostApplies(query)
                             THEN << TopicBoost >> ELSE <<>>)
      indicator_count == FloatSumFrom(weights, 1, Zero)
      indicator_score == FloatMinOne(FloatDiv(indicator_count, 6))
      sentences       == Sentences(query)
      avg_words_per_sentence ==
        FloatQuotient(TotalWords(sentences, 1), Max(Len(sentences), 1))
      sentence_score  == FloatMinOne(FloatDiv(avg_words_per_sentence, 20))
  IN  FloatAdd(FloatAdd(FloatMul(FloatQuotient(20, 100), length_score),
                        FloatMul(FloatQuotient(70, 100), indicator_score)),
               FloatMul(FloatQuotient(10, 100), sentence_score))

\* The comparison of the score as an exact fraction with 3/10.
IsComplexScore(a) == 10 * a.scoreNum > 3 * a.scoreDen

\* is_complex = complexity_score > 0.30.  The float differs from the exact
\* fraction by less than 2^-50 and a fraction other than 3/10 differs from
\* 3/10 by at least 1 / (60000 * sentences): the floats compare as the
\* fractions do unless the fraction is 3/10, where the floats decide.
assess_complexity(question) ==
  LET a == Assessment(question)
  IN  IF 10 * a.scoreNum = 3 * a.scoreDen
      THEN FloatLess(FloatQuotient(30, 100), complexity_score(question))
      ELSE IsComplexScore(a)

(***************************************************************************)
(* ragbase/model.py and ragbase/config.py                                  *)
(***************************************************************************)
GENERAL_LLM == "llama-3.3-70b-versatile"

COMPLEX_LLM == "deepseek-r1-distill-llama-70b"

\* The model handle the factory builds for a tier.
create_llm(use_complex_model) ==
  [model_name |-> IF use_complex_model THEN COMPLEX_LLM ELSE GENERAL_LLM]

\* Variant: a score of exactly 0.30 counts as complex.
get_appropriate_llm_inclusive(query) ==
  LET a          == Assessment(query)
      is_complex == 10 * a.scoreNum >= 3 * a.scoreDen
  IN  [llm |-> create_llm(is_complex), is_complex |-> is_complex,
       requests |-> << is_complex >>]

\* DynamicComplexityRouter.get_appropriate_llm: (llm, is_complex), and the
\* requests it makes to the factory (the value of use_complex_model of each).
get_appropriate_llm(query) ==
  LET is_complex == assess_complexity(query)
  IN  [llm |-> create_llm(is_complex), is_complex |-> is_complex,
       requests |-> << is_complex >>]

\* Errors the constructor of the model handle may raise; "none": it returns.
FactoryErrors == { "none", "ValidationError" }

\* Variant: the router answers a failing factory with the general model.
router_call_default(query, factory_error) ==
  LET r == get_appropriate_llm(query)
  IN  IF factory_error = "none"
      THEN [outcome |-> "returned", error |-> "none", llm |-> r.llm,
            is_complex |-> r.is_complex, requests |-> r.requests]
      ELSE [outcome |-> "returned", error |-> "none",
            llm |-> create_llm(FALSE), is_complex |-> FALSE,
            requests |-> r.requests]

\* What a caller of get_appropriate_llm observes when the factory answers
\* the request with factory_error: there is no try statement in
\* get_appropriate_llm, an exception of create_llm leaves it as raised.
router_call(query, factory_error) ==
  LET r == get_appropriate_llm(query)
  IN  IF factory_error = "none"
      THEN [outcome |-> "returned", error |-> "none", llm |-> r.llm,
            is_complex |-> r.is_complex, requests |-> r.requests]
      ELSE [outcome |-> "raised", error |-> factory_error,
            llm |-> "none", is_complex |-> "none", requests |-> r.requests]

(***************************************************************************)
(* Inputs of a turn                                                        *)
(***************************************************************************)
\* A question that is not a str (None, a number, ...): every str operation
\* on it raises.
NotAStr == <<"<not a str>">>

\* A query that is scored above 0.30 as typed and at 0.30 once its doubled
\* space is normalised.
DoubleSpacedQuery ==
  <<"m","o","r","a","l"," "," ","x"," ","x"," ","x"," ","x"," ","x"," ",
    "x"," ","x"," ","x"," ","x","x"," ","x","x"," ","x","x">>

Questions ==
  { <<"e","t","h","i","c","a","l">>,
    DoubleSpacedQuery,
    <<"M","o","r","a","l"," ","A","I">>,
    <<" ","\t">>,
    <<>>,
    <<"a","?","?">>,
    <<" ","w","h","y","\n"," ",".",".">>,
    NotAStr }

\* Document lists the retrieval stage may return.
DocLists == { <<>>, <<"doc1", "doc2">> }

\* Text fragments the generation stage may emit.
Chunks == { "", "tok" }

\* The retriever object build_qa_chain creates.
Retrievers == { "retriever#1" }

(***************************************************************************)
(* State                                                                   *)
(***************************************************************************)
VARIABLES
  AUTO_COMPLEXITY_ROUTING,   \* Config.AUTO_COMPLEXITY_ROUTING
  USE_TOKEN_OPTIMIZATION,    \* Config.USE_TOKEN_OPTIMIZATION
  history_exposes_runnable,  \* does the installed RunnableWithMessageHistory
                             \* expose its wrapped chain as `.runnable`
  pipes,            \* heap of pipeline objects; a reference is an index
  pc,               \* position of the current ask_question generator
  arg_chain,        \* ask_question's argument `chain`
  arg_question,     \* ask_question's argument `question`
  chain,            \* local variable `chain`
  question,         \* local variable `question`
  out,              \* values yielded to the consumer in this turn
  propagated,       \* an exception left ask_question
  stage,            \* progress of the invoked pipeline's event stream
  consumed,         \* events received from chain.astream_events
  invoked,          \* arguments of the astream_events call of this turn
  calls,            \* calls made in this turn
  routing,          \* outcome of the routing step
  optimization,     \* outcome of the token optimization step
  raised,           \* the pipeline's event stream raised
  config_changed,   \* the flags of this turn differ from those the previous
                    \* turn read
  fn,               \* the function of ragbase/optimizers.py last called alone
  fn_input,         \* the text it was called with
  fn_result,        \* what the call gave
  browsers          \* the browser sessions running the script of app.py

\* The state of a turn of ask_question and of Config.
turn_vars ==
  << AUTO_COMPLEXITY_ROUTING, USE_TOKEN_OPTIMIZATION, history_exposes_runnable,
     pipes, pc, arg_chain, arg_question, chain, question, out, propagated,
     stage, consumed, invoked, calls, routing, optimization, raised,
     config_changed >>

\* The state of a call of one function of ragbase/optimizers.py.
fn_vars == << fn, fn_input, fn_result >>

vars == << turn_vars, fn_vars, browsers >>

\* The reference of the chain the application built and caches.
AppChain == 1

NoCalls ==
  [assess_complexity |-> 0, create_llm |-> 0, update_chain_llm |-> 0,
   astream_events |-> 0]

NotInvoked == [chain |-> 0, question |-> <<>>]

NoResult == [outcome |-> "none"]

(***************************************************************************)
(* app.py: the script, run by one thread for each browser session          *)
(***************************************************************************)
\* Number of browser sessions.
NumBrowsers == 2

Browsers == 1..NumBrowsers

\* The sets of uploaded files a user may submit.
FileSets == { "files#1", "files#2" }

\* Config.CONVERSATION_MESSAGES_LIMIT
CONVERSATION_MESSAGES_LIMIT == 6

\* The session id ask_chain passes to ask_question.
SESSION_ID == "session-id-42"

\* @st.cache_resource build_qa_chain(files): one chain object for each
\* value of the argument, shared by every browser session of the process.
build_qa_chain(files) == [cached_for |-> files]

NoTurn == [session_id |-> "", chain |-> [cached_for |-> ""], received |-> 0]

\* A browser session after the first run of the script: the greeting is the
\* only message, the chain is built, the script waits for a question.
NewBrowser(files) ==
  [files |-> files, script |-> "waiting", messages |-> << "assistant" >>,
   turn |-> NoTurn]

(***************************************************************************)
(* ragbase/chain.py: pipelines                                             *)
(*                                                                         *)
(* A pipeline object is a record: what attribute probing sees              *)
(* (runnable, inner_retriever = runnable.retriever, inner_first =          *)
(* runnable.first, inner_first_retriever = runnable.first.retriever,       *)
(* retriever_attr = chain.retriever; each "absent", "none" or a value),    *)
(* and what the pipeline is composed of (retriever, prompt, llm, history   *)
(* binding, run name).                                                     *)
(***************************************************************************)
PROMPT == "system:SYSTEM_PROMPT|placeholder:chat_history|human:{question}"

HistoryBinding ==
  [wrapped |-> TRUE, input_messages_key |-> "question",
   history_messages_key |-> "chat_history"]

NoHistoryBinding ==
  [wrapped |-> FALSE, input_messages_key |-> "", history_messages_key |-> ""]

\* (RunnablePassthrough.assign(context = ... | retriever.with_config(..) | ..)
\*    | prompt | llm) wrapped in RunnableWithMessageHistory and with_config.
\* The inner sequence's first step is the assign step, which has no
\* attribute `retriever`; the outer object has none either.
HistoryChain(llm, retriever, exposes_runnable) ==
  [runnable              |-> IF exposes_runnable THEN "object" ELSE "absent",
   inner_retriever       |-> "absent",
   inner_first           |-> IF exposes_runnable THEN "object" ELSE "absent",
   inner_first_retriever |-> "absent",
   retriever_attr        |-> "absent",
   retriever             |-> retriever,
   prompt                |-> PROMPT,
   llm                   |-> llm,
   history               |-> HistoryBinding,
   run_name              |-> "chain_answer"]

create_chain(llm, retriever, exposes_runnable) ==
  HistoryChain(llm, retriever, exposes_runnable)

\* Pipelines of other shapes that a caller may pass to update_chain_llm and
\* ask_question: objects on which the probed attributes exist.
OtherPipelines(llm, r) ==
  LET base == [runnable |-> "absent", inner_retriever |-> "absent",
               inner_first |-> "absent", inner_first_retriever |-> "absent",
               retriever_attr |-> "absent", retriever |-> r, prompt |-> PROMPT,
               llm |-> llm, history |-> HistoryBinding,
               run_name |-> "chain_answer"]
      wrapper == [base EXCEPT !.runnable = "object"]
  IN  { \* wrapper whose inner chain has .retriever
        [wrapper EXCEPT !.inner_retriever = r],
        \* wrapper whose inner chain has .first.retriever
        [wrapper EXCEPT !.inner_first = "object", !.inner_first_retriever = r],
        \* wrapper whose inner chain has .retriever = None and .first.retriever
        [wrapper EXCEPT !.inner_retriever = "none", !.inner_first = "object",
                        !.inner_first_retriever = r],
        \* wrapper with .runnable = None
        [base EXCEPT !.runnable = "none"],
        \* plain chain with .retriever, no history wrapper
        [base EXCEPT !.retriever_attr = r, !.history = NoHistoryBinding,
                     !.run_name = ""],
        \* plain chain with .retriever = None
        [base EXCEPT !.retriever_attr = "none", !.history = NoHistoryBinding,
                     !.run_name = ""] }

\* The retriever update_chain_llm locates in a pipeline, "none" if it finds
\* none.
LocateRetriever(c) ==
  IF c.runnable # "absent"
  THEN IF c.runnable # "none" /\ c.inner_retriever # "absent"
       THEN c.inner_retriever
       ELSE IF /\ c.runnable # "none"
               /\ c.inner_first # "absent"
               /\ c.inner_first_retriever # "absent"
            THEN c.inner_first_retriever
            ELSE "none"
  ELSE IF c.retriever_attr # "absent" THEN c.retriever_attr ELSE "none"

\* Variant: the model of the input pipeline is replaced in place.
update_chain_llm_in_place(h, ref, llm, exposes_runnable) ==
  LET retriever == LocateRetriever(h[ref])
  IN  IF retriever = "none"
      THEN [ref |-> ref, heap |-> h]
      ELSE [ref  |-> Len(h) + 1,
            heap |-> Append([h EXCEPT ![ref].llm = llm],
                            HistoryChain(llm, retriever, exposes_runnable))]

\* Variant: the new pipeline is built around a copy of the retriever.
update_chain_llm_copy(h, ref, llm, exposes_runnable) ==
  LET retriever == LocateRetriever(h[ref])
  IN  IF retriever = "none"
      THEN [ref |-> ref, heap |-> h]
      ELSE [ref  |-> Len(h) + 1,
            heap |-> Append(h, HistoryChain(llm, "copy of retriever",
                                            exposes_runnable))]

\* update_chain_llm(chain, llm) on heap h: the reference it returns and the
\* heap after the call.
update_chain_llm(h, ref, llm, exposes_runnable) ==
  LET retriever == LocateRetriever(h[ref])
  IN  IF retriever = "none"
      THEN [ref |-> ref, heap |-> h]
      ELSE [ref  |-> Len(h) + 1,
            heap |-> Append(h, HistoryChain(llm, retriever, exposes_runnable))]

(***************************************************************************)
(* The event stream of an invoked pipeline (astream_events, version v2,    *)
(* restricted to the runs named context_retriever and chain_answer).       *)
(***************************************************************************)
StreamEvent(event, name, docs, text) ==
  [event |-> event, name |-> name, docs |-> docs, text |-> text]

NumChunks(events) ==
  Cardinality({i \in 1..Len(events) : events[i].event = "on_chain_stream"})

\* Variant: retrieval runs concurrently with generation.
PipelineEvents_concurrent(st, events) ==
  CASE st = "invoked" ->
         { [ev |-> StreamEvent("on_chain_start", "chain_answer", <<>>, ""),
            next |-> "generating"] }
    [] st = "generating" ->
         { [ev |-> StreamEvent("on_chain_stream", "chain_answer", <<>>, c),
            next |-> "generating"] :
              c \in IF NumChunks(events) < MaxChunks THEN Chunks ELSE {} }
         \cup
         { [ev |-> StreamEvent("on_retriever_end", "context_retriever", d, ""),
            next |-> "generating"] :
              d \in IF \E i \in 1..Len(events) : events[i].event = "on_retriever_end"
                    THEN {} ELSE DocLists }
         \cup
         { [ev |-> StreamEvent("on_chain_end", "chain_answer", <<>>, ""),
            next |-> "ended"] }
    [] OTHER -> {}

\* The events the pipeline can emit next and the stage each leads to.  The
\* context is assigned from the retriever before prompt | llm runs.
PipelineEvents(st, events) ==
  CASE st = "invoked" ->
         { [ev |-> StreamEvent("on_chain_start", "chain_answer", <<>>, ""),
            next |-> "chain_started"] }
    [] st = "chain_started" ->
         { [ev |-> StreamEvent("on_retriever_start", "context_retriever", <<>>, ""),
            next |-> "retrieving"] }
    [] st = "retrieving" ->
         { [ev |-> StreamEvent("on_retriever_end", "context_retriever", d, ""),
            next |-> "generating"] : d \in DocLists }
    [] st = "generating" ->
         { [ev |-> StreamEvent("on_chain_stream", "chain_answer", <<>>, c),
            next |-> "generating"] :
              c \in IF NumChunks(events) < MaxChunks THEN Chunks ELSE {} }
         \cup
         { [ev |-> StreamEvent("on_chain_end", "chain_answer", <<>>, ""),
            next |-> "ended"] }
    [] OTHER -> {}

(***************************************************************************)
(* ragbase/chain.py: ask_question                                          *)
(***************************************************************************)
\* The values ask_question yields.  `kind` names the yield statement that
\* produced the value, `pytype` is the Python type of the value.
SourceDocuments(docs) ==
  [kind |-> "SourceDocuments", pytype |-> "list", docs |-> docs, text |-> ""]

TextDelta(text) ==
  [kind |-> "TextDelta", pytype |-> "str", docs |-> <<>>, text |-> text]

ErrorEvent ==
  [kind |-> "Error", pytype |-> "str", docs |-> <<>>,
   text |-> "An error occurred while processing your question"]

\* ask_chain, `if type(event) is str: full_response += event`: the texts
\* appended to full_response while the events are received, in order.
ask_chain_full_response(events) ==
  LET strs == SelectSeq(events, LAMBDA e : e.pytype = "str")
  IN  [i \in 1..Len(strs) |-> strs[i].text]

\* Variant: the optimization step is not protected.
TryBlocks_unprotected == { "routing", "execution" }

\* The try blocks of ask_question: an exception raised inside one of them is
\* caught by its except clause.
TryBlocks == { "routing", "optimization", "execution" }

\* What the except clause of each try block yields.
\* Variant: the routing handler reports the failure to the consumer.
RoutingExcept_reports == << ErrorEvent >>

RoutingExcept == <<>>

OptimizationExcept == <<>>

\* Variant: the execution handler only logs.
ExecutionExcept_silent == <<>>

ExecutionExcept == << ErrorEvent >>

\* Variant: empty text chunks are skipped.
Yielded_skip_empty(e) ==
  (IF e.event = "on_retriever_end" THEN << SourceDocuments(e.docs) >> ELSE <<>>)
  \o
  (IF e.event = "on_chain_stream" /\ e.text # ""
   THEN << TextDelta(e.text) >> ELSE <<>>)

\* The body of the `async for` loop: the values yielded for one event.
Yielded(e) ==
  (IF e.event = "on_retriever_end" THEN << SourceDocuments(e.docs) >> ELSE <<>>)
  \o
  (IF e.event = "on_chain_stream" THEN << TextDelta(e.text) >> ELSE <<>>)

\* `if updated_chain is not chain: chain = updated_chain`
AdoptedChain(current, updated) == IF updated # current THEN updated ELSE current

\* Variant: the optimized question is adopted even when it is empty.
AdoptedQuestion_always(current, optimized) == optimized

\* `if optimized_question: question = optimized_question`
AdoptedQuestion(current, optimized) ==
  IF optimized # <<>> THEN optimized ELSE current

\* An exception raised in try block `block` whose handler yields `handler`
\* and after which execution continues at `next`.
Raise(block, handler, next) ==
  IF block \in TryBlocks
  THEN /\ out' = out \o handler
       /\ pc' = next
       /\ propagated' = propagated
  ELSE /\ out' = out
       /\ pc' = "done"
       /\ propagated' = TRUE

(***************************************************************************)
(* Initial state: the application has built its chain (build_qa_chain) or  *)
(* a caller holds a pipeline of another shape; no turn has started.        *)
(***************************************************************************)
Init ==
  /\ AUTO_COMPLEXITY_ROUTING \in BOOLEAN
  /\ USE_TOKEN_OPTIMIZATION \in BOOLEAN
  /\ history_exposes_runnable \in BOOLEAN
  /\ \E use_complex_model \in BOOLEAN, r \in Retrievers :
       LET llm == IF AUTO_COMPLEXITY_ROUTING
                  THEN create_llm(FALSE)
                  ELSE create_llm(use_complex_model)
       IN  \E p \in {create_chain(llm, r, history_exposes_runnable)}
                    \cup OtherPipelines(llm, r) :
             pipes = << p >>
  /\ pc = "idle"
  /\ arg_chain = AppChain
  /\ arg_question = <<>>
  /\ chain = AppChain
  /\ question = <<>>
  /\ out = <<>>
  /\ propagated = FALSE
  /\ stage = "none"
  /\ consumed = <<>>
  /\ invoked = NotInvoked
  /\ calls = NoCalls
  /\ routing = "pending"
  /\ optimization = "pending"
  /\ raised = FALSE
  /\ config_changed = FALSE
  /\ fn = "none"
  /\ fn_input = <<>>
  /\ fn_result = NoResult
  /\ browsers = [b \in Browsers |-> NewBrowser("files#1")]

(***************************************************************************)
(* app.py                                                                  *)
(***************************************************************************)
\* show_upload_documents: the two checkboxes are written to Config on every
\* run of the script, between turns.
SetConfig(auto_routing, token_optimization) ==
  /\ pc \in {"idle", "done"}
  /\ AUTO_COMPLEXITY_ROUTING' = auto_routing
  /\ USE_TOKEN_OPTIMIZATION' = token_optimization
  /\ UNCHANGED << history_exposes_runnable, pipes, pc, arg_chain, arg_question,
                  chain, question, out, propagated, stage, consumed, invoked,
                  calls, routing, optimization, raised, config_changed,
                  fn_vars, browsers >>

\* show_chat_input / ask_chain: a new turn on the cached chain.  Pipelines
\* built by an earlier turn are no longer referenced.
StartTurn(q) ==
  /\ pc \in {"idle", "done"}
  /\ pipes' = << pipes[AppChain] >>
  /\ arg_chain' = AppChain
  /\ arg_question' = q
  /\ chain' = AppChain
  /\ question' = q
  /\ pc' = "routing"
  /\ out' = <<>>
  /\ propagated' = FALSE
  /\ stage' = "none"
  /\ consumed' = <<>>
  /\ invoked' = NotInvoked
  /\ calls' = NoCalls
  /\ routing' = "pending"
  /\ optimization' = "pending"
  /\ raised' = FALSE
  /\ config_changed' =
       /\ pc = "done"
       /\ \/ AUTO_COMPLEXITY_ROUTING # (routing # "disabled")
          \/ USE_TOKEN_OPTIMIZATION # (optimization # "disabled")
  /\ UNCHANGED << AUTO_COMPLEXITY_ROUTING, USE_TOKEN_OPTIMIZATION,
                  history_exposes_runnable, fn_vars, browsers >>

(***************************************************************************)
(* ask_question, step 1: dynamic complexity routing                        *)
(***************************************************************************)
\* Variant: the flag is bound once, to the value Config is loaded with.
RoutingEnabled_bound == TRUE

\* `if Config.AUTO_COMPLEXITY_ROUTING:` reads the class attribute when the
\* step runs.
RoutingEnabled == AUTO_COMPLEXITY_ROUTING

\* `if Config.USE_TOKEN_OPTIMIZATION:`
OptimizationEnabled == USE_TOKEN_OPTIMIZATION

\* Variant: the router is given the normalised form of the query.
RoutingArgument_normalised(q) ==
  IF OptimizationEnabled /\ optimize_prompt(q) # <<>>
  THEN optimize_prompt(q) ELSE q

\* The argument of get_appropriate_llm: the parameter `question`, which no
\* statement has assigned to when step 1 runs.
RoutingArgument(q) == q

RoutingFrame ==
  UNCHANGED << AUTO_COMPLEXITY_ROUTING, USE_TOKEN_OPTIMIZATION,
               history_exposes_runnable, arg_chain, arg_question, question,
               stage, consumed, invoked, optimization, raised, config_changed,
               fn_vars, browsers >>

\* Variant: the query is scored before the flag is consulted.
RoutingDisabled_scores ==
  /\ pc = "routing"
  /\ ~RoutingEnabled
  /\ routing' = "disabled"
  /\ pc' = "optimizing"
  /\ calls' = [calls EXCEPT !.assess_complexity = @ + 1]
  /\ UNCHANGED << pipes, chain, out, propagated >>
  /\ RoutingFrame

RoutingDisabled ==
  /\ pc = "routing"
  /\ ~RoutingEnabled
  /\ routing' = "disabled"
  /\ pc' = "optimizing"
  /\ UNCHANGED << pipes, chain, out, propagated, calls >>
  /\ RoutingFrame

\* assess_complexity raises (query.lower() on a value that is not a str).
RoutingScorerRaises ==
  /\ pc = "routing"
  /\ RoutingEnabled
  /\ question = NotAStr
  /\ calls' = [calls EXCEPT !.assess_complexity = @ + 1]
  /\ routing' = "raised"
  /\ Raise("routing", RoutingExcept, "optimizing")
  /\ UNCHANGED << pipes, chain >>
  /\ RoutingFrame

\* create_llm raises inside get_appropriate_llm (the provider client cannot
\* be constructed).
RoutingFactoryRaises ==
  /\ pc = "routing"
  /\ RoutingEnabled
  /\ question # NotAStr
  /\ calls' = [calls EXCEPT !.assess_complexity = @ + 2, !.create_llm = @ + 1]
  /\ routing' = "raised"
  /\ Raise("routing", RoutingExcept, "optimizing")
  /\ UNCHANGED << pipes, chain >>
  /\ RoutingFrame

\* Variant: the chain variable is assigned before the failing step.
RoutingRebindRaises_assigned ==
  /\ pc = "routing"
  /\ RoutingEnabled
  /\ question # NotAStr
  /\ LocateRetriever(pipes[chain]) # "none"
  /\ LET updated == update_chain_llm(pipes, chain, create_llm(FALSE),
                                     history_exposes_runnable)
     IN  /\ pipes' = updated.heap
         /\ chain' = updated.ref
  /\ calls' = [calls EXCEPT !.assess_complexity = @ + 2, !.create_llm = @ + 1,
                            !.update_chain_llm = @ + 1]
  /\ routing' = "raised"
  /\ Raise("routing", RoutingExcept, "optimizing")
  /\ RoutingFrame

\* update_chain_llm raises while building the new pipeline around the
\* retriever it located.
RoutingRebindRaises ==
  /\ pc = "routing"
  /\ RoutingEnabled
  /\ question # NotAStr
  /\ LocateRetriever(pipes[chain]) # "none"
  /\ calls' = [calls EXCEPT !.assess_complexity = @ + 2, !.create_llm = @ + 1,
                            !.update_chain_llm = @ + 1]
  /\ routing' = "raised"
  /\ Raise("routing", RoutingExcept, "optimizing")
  /\ UNCHANGED << pipes, chain >>
  /\ RoutingFrame

\* No exception: the chain is replaced by the updated chain if that is
\* another object.
RoutingCompletes ==
  /\ pc = "routing"
  /\ RoutingEnabled
  /\ question # NotAStr
  /\ LET selected == get_appropriate_llm(RoutingArgument(question))
         updated  == update_chain_llm(pipes, chain, selected.llm,
                                      history_exposes_runnable)
     IN  /\ pipes' = updated.heap
         /\ chain' = AdoptedChain(chain, updated.ref)
         /\ routing' = IF updated.ref # chain THEN "adopted" ELSE "kept"
  /\ calls' = [calls EXCEPT !.assess_complexity = @ + 2, !.create_llm = @ + 1,
                            !.update_chain_llm = @ + 1]
  /\ pc' = "optimizing"
  /\ UNCHANGED << out, propagated >>
  /\ RoutingFrame

(***************************************************************************)
(* ask_question, step 2: token optimization                                *)
(***************************************************************************)
OptimizeFrame ==
  UNCHANGED << AUTO_COMPLEXITY_ROUTING, USE_TOKEN_OPTIMIZATION,
               history_exposes_runnable, pipes, arg_chain, arg_question, chain,
               stage, consumed, invoked, calls, routing, raised, config_changed,
               fn_vars, browsers >>

OptimizeDisabled ==
  /\ pc = "optimizing"
  /\ ~OptimizationEnabled
  /\ optimization' = "disabled"
  /\ pc' = "invoking"
  /\ UNCHANGED << question, out, propagated >>
  /\ OptimizeFrame

\* optimize_prompt raises (re.sub on a value that is not a str).
OptimizeRaises ==
  /\ pc = "optimizing"
  /\ OptimizationEnabled
  /\ question = NotAStr
  /\ optimization' = "raised"
  /\ Raise("optimization", OptimizationExcept, "invoking")
  /\ UNCHANGED question
  /\ OptimizeFrame

OptimizeCompletes ==
  /\ pc = "optimizing"
  /\ OptimizationEnabled
  /\ question # NotAStr
  /\ LET optimized_question == optimize_prompt(question)
     IN  /\ question' = AdoptedQuestion(question, optimized_question)
         /\ optimization' = IF optimized_question # <<>> THEN "adopted" ELSE "empty"
  /\ pc' = "invoking"
  /\ UNCHANGED << out, propagated >>
  /\ OptimizeFrame

(***************************************************************************)
(* ask_question, step 3: streaming the pipeline's events                   *)
(***************************************************************************)
StreamFrame ==
  UNCHANGED << AUTO_COMPLEXITY_ROUTING, USE_TOKEN_OPTIMIZATION,
               history_exposes_runnable, pipes, arg_chain, arg_question, chain,
               question, routing, optimization, config_changed, fn_vars,
               browsers >>

\* chain.astream_events({"question": question}, ...)
Invoke ==
  /\ pc = "invoking"
  /\ invoked' = [chain |-> chain, question |-> question]
  /\ calls' = [calls EXCEPT !.astream_events = @ + 1]
  /\ stage' = "invoked"
  /\ pc' = "streaming"
  /\ UNCHANGED << out, propagated, consumed, raised >>
  /\ StreamFrame

\* One iteration of the `async for` loop.
ForwardEvent ==
  /\ pc = "streaming"
  /\ \E n \in PipelineEvents(stage, consumed) :
       /\ consumed' = Append(consumed, n.ev)
       /\ out' = out \o Yielded(n.ev)
       /\ stage' = n.next
  /\ UNCHANGED << pc, propagated, invoked, calls, raised >>
  /\ StreamFrame

\* The stream is exhausted: the loop and the generator end.
StreamEnds ==
  /\ pc = "streaming"
  /\ stage = "ended"
  /\ pc' = "done"
  /\ UNCHANGED << out, propagated, stage, consumed, invoked, calls, raised >>
  /\ StreamFrame

\* The retrieval or generation stage raises: the except clause yields the
\* error message.
StreamRaises ==
  /\ pc = "streaming"
  /\ stage # "ended"
  /\ raised' = TRUE
  /\ stage' = "raised"
  /\ Raise("execution", ExecutionExcept, "errored")
  /\ UNCHANGED << consumed, invoked, calls >>
  /\ StreamFrame

\* The consumer resumes the generator after the error message: it ends.
AfterError ==
  /\ pc = "errored"
  /\ pc' = "done"
  /\ UNCHANGED << out, propagated, stage, consumed, invoked, calls, raised >>
  /\ StreamFrame

Next ==
  \/ \E a, t \in BOOLEAN : SetConfig(a, t)
  \/ \E q \in Questions : StartTurn(q)
  \/ RoutingDisabled
  \/ RoutingScorerRaises
  \/ RoutingFactoryRaises
  \/ RoutingRebindRaises
  \/ RoutingCompletes
  \/ OptimizeDisabled
  \/ OptimizeRaises
  \/ OptimizeCompletes
  \/ Invoke
  \/ ForwardEvent
  \/ StreamEnds
  \/ StreamRaises
  \/ AfterError

Spec == Init /\ [][Next]_vars

(***************************************************************************)
(* Calls of single functions of ragbase/optimizers.py                      *)
(***************************************************************************)
\* Longest text built from TextAlphabet.
MaxTextLen == 4

\* Largest number of pieces a composed query is built from.
MaxPieces == 3

\* Largest max_length truncate_text is called with.
MaxMaxLength == 6

TextAlphabet == { " ", ".", "!", "a" }

\* Every text of at most MaxTextLen characters of TextAlphabet: the empty
\* text, texts of whitespace only and of sentence punctuation only included.
ShortTexts == UNION { [1..n -> TextAlphabet] : n \in 0..MaxTextLen }

Pieces ==
  { <<"m","o","r","a","l">>,
    <<" ","a"," ","a"," ","a"," ","a"," ","a">>,
    <<".">>,
    <<" ","A","I">>,
    <<"?">> }

\* The queries made of at most n pieces.
RECURSIVE Compositions(_)
Compositions(n) ==
  IF n = 0 THEN { <<>> }
  ELSE LET shorter == Compositions(n - 1)
       IN  shorter \cup { p \o x : p \in shorter, x \in Pieces }

\* The query of test_philosophical_questions in test_improved_router.py.
PhilosophicalQuery ==
  <<"E","x","p","l","a","i","n"," ","t","h","e"," ","p","h","i","l",
    "o","s","o","p","h","i","c","a","l"," ","c","o","n","s","i","d",
    "e","r","a","t","i","o","n","s"," ","o","f"," ","i","m","p","l",
    "e","m","e","n","t","i","n","g"," ","A","I"," ","s","y","s","t",
    "e","m","s">>

\* A query whose three component scores add up to exactly 0.30.
ThresholdQuery ==
  <<"m","o","r","a","l"," ","x"," ","x"," ","x"," ","x"," ","x"," ",
    "x"," ","x"," ","x"," ","x","x"," ","x","x"," ","x","x">>

\* The second prompt of test_token_optimization in core_optimizers_test.py.
RepeatedPunctuationQuery ==
  <<"W","h","a","t"," ","i","s"," ","e","m","b","e","d","d","i","n",
    "g","s","?","?","?","?","?","?","?","?"," ","A","n","d"," ","h",
    "o","w"," ","d","o"," ","t","h","e","y"," ","w","o","r","k","?",
    "?","?","?","?","?","!","!","!","!">>

\* A request in one sentence of 215 characters and 37 words, none of them an
\* indicator: its length score and its sentence score are both 1.0.
LongPlainQuery ==
  <<"P","l","e","a","s","e"," ","s","e","n","d"," ","m","e"," ","t",
    "h","e"," ","l","a","t","e","s","t"," ","v","e","r","s","i","o",
    "n"," ","o","f"," ","t","h","e"," ","q","u","a","r","t","e","r",
    "l","y"," ","s","a","l","e","s"," ","r","e","p","o","r","t"," ",
    "f","o","r"," ","t","h","e"," ","n","o","r","t","h","e","r","n",
    " ","r","e","g","i","o","n"," ","t","o","g","e","t","h","e","r",
    " ","w","i","t","h"," ","t","h","e"," ","u","p","d","a","t","e",
    "d"," ","l","i","s","t"," ","o","f"," ","c","u","s","t","o","m",
    "e","r","s"," ","a","n","d"," ","t","h","e","i","r"," ","p","h",
    "o","n","e"," ","n","u","m","b","e","r","s"," ","s","o"," ","t",
    "h","a","t"," ","t","h","e"," ","t","e","a","m"," ","c","a","n",
    " ","f","i","n","i","s","h"," ","t","h","e"," ","n","o","t","e",
    "s"," ","b","e","f","o","r","e"," ","F","r","i","d","a","y"," ",
    "e","v","e","n","i","n","g">>

NamedQueries ==
  { PhilosophicalQuery,
    ThresholdQuery,
    RepeatedPunctuationQuery,
    LongPlainQuery,
    <<" ","\t">>,
    <<"a","\n","\n","b"," ",".","."," "," ","!","!"," ","?","?">> }

RawTexts == ShortTexts \cup Compositions(MaxPieces) \cup NamedQueries

\* The functions are given texts as typed and texts already normalised.
Texts == RawTexts \cup { optimize_prompt(t) : t \in RawTexts }

\* No turn is running: the state ask_question and Config are in before the
\* first question.
TurnAtRest ==
  /\ AUTO_COMPLEXITY_ROUTING = TRUE
  /\ USE_TOKEN_OPTIMIZATION = TRUE
  /\ history_exposes_runnable = TRUE
  /\ pipes = << create_chain(create_llm(FALSE), "retriever#1", TRUE) >>
  /\ pc = "idle"
  /\ arg_chain = AppChain
  /\ arg_question = <<>>
  /\ chain = AppChain
  /\ question = <<>>
  /\ out = <<>>
  /\ propagated = FALSE
  /\ stage = "none"
  /\ consumed = <<>>
  /\ invoked = NotInvoked
  /\ calls = NoCalls
  /\ routing = "pending"
  /\ optimization = "pending"
  /\ raised = FALSE
  /\ config_changed = FALSE

InitFunctions ==
  /\ TurnAtRest
  /\ browsers = [b \in Browsers |-> NewBrowser("files#1")]
  /\ fn = "none"
  /\ fn_input \in Texts
  /\ fn_result = NoResult

\* What one call of assess_complexity(query) gives: the returned pair (the
\* score as the fraction a.scoreNum / a.scoreDen) and the terms of the sum.
AssessCall(query) ==
  [is_complex  |-> assess_complexity(query),
   a           |-> Assessment(query),
   topic_boost |-> TopicBoostApplies(Lower(query))]

\* assess_complexity(fn_input)
CallAssess ==
  /\ fn = "none"
  /\ fn' = "assess_complexity"
  /\ fn_result' = [outcome |-> "returned", call |-> AssessCall(fn_input),
                   calls |-> 1, added |-> <<>>, present |-> FALSE,
                   before |-> AssessCall(fn_input)]
  /\ UNCHANGED << fn_input, turn_vars, browsers >>

\* A second call assess_complexity(fn_input) with the same query.
CallAssessAgain ==
  /\ fn = "assess_complexity"
  /\ fn_result.calls = 1
  /\ fn_result' = [outcome |-> "returned", call |-> AssessCall(fn_input),
                   calls |-> 2, added |-> <<>>, present |-> FALSE,
                   before |-> fn_result.call]
  /\ UNCHANGED << fn, fn_input, turn_vars, browsers >>

\* assess_complexity(fn_input + " " + term) for a term of TERM_WEIGHTS, after
\* assess_complexity(fn_input).
CallAssessWithTerm(term) ==
  /\ fn = "assess_complexity"
  /\ fn_result.calls = 1
  /\ LET extended == fn_input \o <<" ">> \o term
     IN  /\ fn_input' = extended
         /\ fn_result' = [outcome |-> "returned", call |-> AssessCall(extended),
                          calls |-> 2, added |-> term,
                          present |-> Contains(term, Lower(fn_input)),
                          before |-> fn_result.call]
  /\ UNCHANGED << fn, turn_vars, browsers >>

\* get_appropriate_llm(fn_input), the factory answering with factory_error.
CallRouter(factory_error) ==
  /\ fn = "none"
  /\ fn' = "get_appropriate_llm"
  /\ fn_result' = [factory  |-> factory_error,
                   observed |-> router_call(fn_input, factory_error)]
  /\ UNCHANGED << fn_input, turn_vars, browsers >>

\* optimize_prompt(fn_input)
CallOptimize ==
  /\ fn = "none"
  /\ fn' = "optimize_prompt"
  /\ fn_result' = [outcome |-> "returned", value |-> optimize_prompt(fn_input),
                   applications |-> 1, original |-> fn_input]
  /\ UNCHANGED << fn_input, turn_vars, browsers >>

\* optimize_prompt applied to the text the first application returned.
CallOptimizeAgain ==
  /\ fn = "optimize_prompt"
  /\ fn_result.applications = 1
  /\ fn_input' = fn_result.value
  /\ fn_result' = [outcome |-> "returned",
                   value |-> optimize_prompt(fn_result.value),
                   applications |-> 2, original |-> fn_result.original]
  /\ UNCHANGED << fn, turn_vars, browsers >>

\* truncate_text(fn_input, max_length)
CallTruncate(max_length) ==
  /\ fn = "none"
  /\ fn' = "truncate_text"
  /\ fn_result' = [outcome |-> "returned",
                   value |-> truncate_text(fn_input, max_length),
                   max_length |-> max_length]
  /\ UNCHANGED << fn_input, turn_vars, browsers >>

NextFunctions ==
  \/ CallAssess
  \/ CallAssessAgain
  \/ \E i \in 1..Len(TERM_WEIGHTS) : CallAssessWithTerm(TERM_WEIGHTS[i][1])
  \/ \E e \in FactoryErrors : CallRouter(e)
  \/ CallOptimize
  \/ CallOptimizeAgain
  \/ \E m \in 0..MaxMaxLength : CallTruncate(m)

SpecFunctions == InitFunctions /\ [][NextFunctions]_vars

(***************************************************************************)
(* app.py: browser sessions of one server process                          *)
(*                                                                         *)
(* Streamlit runs the script of each browser session on a thread of its    *)
(* own; show_chat_input runs a turn to its end with asyncio.run before the *)
(* script of that session goes on.                                         *)
(***************************************************************************)
FunctionsAtRest ==
  /\ fn = "none"
  /\ fn_input = <<>>
  /\ fn_result = NoResult

InitSessions ==
  /\ TurnAtRest
  /\ FunctionsAtRest
  /\ browsers \in [Browsers -> { NewBrowser(f) : f \in FileSets }]

\* The script stops before the chat input once the limit is reached.
LimitReached(b) ==
  /\ CONVERSATION_MESSAGES_LIMIT > 0
  /\ CONVERSATION_MESSAGES_LIMIT <= Len(browsers[b].messages)

\* show_chat_input: the question is appended to the messages of the session
\* and ask_chain starts the turn on the cached chain of the session's files.
SubmitQuestion(b) ==
  /\ browsers[b].script = "waiting"
  /\ ~LimitReached(b)
  /\ browsers' =
       [browsers EXCEPT
          ![b].script   = "asking",
          ![b].messages = Append(@, "user"),
          ![b].turn     = [session_id |-> SESSION_ID,
                           chain      |-> build_qa_chain(browsers[b].files),
                           received   |-> 0]]
  /\ UNCHANGED << turn_vars, fn_vars >>

\* ask_chain: one more event of the turn's stream is received.
ReceiveEvent(b) ==
  /\ browsers[b].script = "asking"
  /\ browsers[b].turn.received < MaxChunks + 1
  /\ browsers' = [browsers EXCEPT ![b].turn.received = @ + 1]
  /\ UNCHANGED << turn_vars, fn_vars >>

\* ask_chain: the stream has ended, the answer is appended to the messages.
FinishTurn(b) ==
  /\ browsers[b].script = "asking"
  /\ browsers' =
       [browsers EXCEPT
          ![b].script   = "waiting",
          ![b].messages = Append(@, "assistant"),
          ![b].turn     = NoTurn]
  /\ UNCHANGED << turn_vars, fn_vars >>

NextSessions ==
  \/ \E b \in Browsers : SubmitQuestion(b)
  \/ \E b \in Browsers : ReceiveEvent(b)
  \/ \E b \in Browsers : FinishTurn(b)

SpecSessions == InitSessions /\ [][NextSessions]_vars

(***************************************************************************)
(* Properties                                                              *)
(***************************************************************************)
HasError == \E i \in 1..Len(out) : out[i].kind = "Error"

\* The output expected for a sequence of underlying events: one
\* SourceDocuments per on_retriever_end, one TextDelta per on_chain_stream,
\* nothing for any other event, in the order of arrival.
RECURSIVE Retagged(_)
Retagged(events) ==
  IF events = <<>> THEN <<>>
  ELSE LET e == Head(events)
       IN  (CASE e.event = "on_retriever_end" ->
                   << [kind |-> "SourceDocuments", pytype |-> "list",
                       docs |-> e.docs, text |-> ""] >>
              [] e.event = "on_chain_stream" ->
                   << [kind |-> "TextDelta", pytype |-> "str",
                       docs |-> <<>>, text |-> e.text] >>
              [] OTHER -> <<>>)
           \o Retagged(Tail(events))

\* The turn is between its routing step and its end: the Config flags have
\* the values the turn read.
MidTurn == pc \in {"optimizing", "invoking", "streaming", "errored"}

Streaming == pc \in {"streaming", "errored"}

\* C1: if the pipeline's event stream raises after k events were forwarded,
\* the turn's output is those k events followed by exactly one Error event
\* and nothing else, and the pipeline was invoked once.
C1_ErrorEndsTheTurn ==
  raised =>
    /\ pc \in {"errored", "done"}
    /\ out # <<>>
    /\ out[Len(out)].kind = "Error"
    /\ \A i \in 1..(Len(out) - 1) : out[i].kind # "Error"
    /\ SubSeq(out, 1, Len(out) - 1) = Retagged(consumed)
    /\ calls.astream_events = 1
    /\ PipelineEvents(stage, consumed) = {}

C1_Witness ==
  /\ raised
  /\ pc = "done"
  /\ NumChunks(consumed) = 2
  /\ Len(out) = 4
  /\ out[2].kind = "TextDelta" /\ out[3].kind = "TextDelta"

\* C2: an Error event is in the output exactly if the pipeline's stream
\* raised; after a failure of routing or of token optimization the turn
\* still invokes the pipeline, and it is in the errored position only after
\* the stream raised.
C2_ErrorOnlyFromExecution ==
  /\ HasError <=> raised
  /\ pc = "errored" => raised
  /\ pc \in {"streaming", "errored", "done"} =>
       /\ calls.astream_events = 1
       /\ invoked # NotInvoked

C2_Witness ==
  /\ routing = "raised"
  /\ optimization = "raised"
  /\ pc = "done"
  /\ stage = "ended"
  /\ ~HasError

\* C3: no exception leaves ask_question, whichever of the scorer, the LLM
\* factory, the rebinding, the normalizer and the pipeline raise.
C3_NoExceptionPropagates == ~propagated

C3_Witness ==
  /\ routing = "raised"
  /\ optimization = "raised"
  /\ raised
  /\ pc = "done"

\* C4: within a turn every SourceDocuments event precedes every TextDelta
\* event of the output.
C4_SourcesPrecedeText ==
  \A i, j \in 1..Len(out) :
    (out[i].kind = "SourceDocuments" /\ out[j].kind = "TextDelta") => i < j

C4_Witness ==
  /\ Len(out) >= 3
  /\ out[1].kind = "SourceDocuments"
  /\ out[2].kind = "TextDelta"
  /\ out[3].kind = "TextDelta"

\* C5: the output before any Error is the re-tagged sequence of the
\* underlying events: one output per retrieval-end or stream event, in
\* arrival order, nothing for other events.
C5_OutputIsRetaggedStream ==
  (IF HasError THEN SubSeq(out, 1, Len(out) - 1) ELSE out) = Retagged(consumed)

C5_Witness ==
  /\ pc = "done"
  /\ ~raised
  /\ Len(consumed) = 6
  /\ Len(out) = 3
  /\ out[2].text = "" /\ out[3].text = "tok"

\* C6: with routing enabled, when routing raised or the rebinding returned
\* the input pipeline, the chain used and invoked is the input pipeline; the
\* chain differs from the input only when the rebinding returned a new
\* object.
C6_FallbackKeepsInputPipeline ==
  (MidTurn /\ AUTO_COMPLEXITY_ROUTING) =>
    /\ routing \in {"raised", "kept"} =>
         /\ chain = arg_chain
         /\ invoked # NotInvoked => invoked.chain = arg_chain
    /\ chain # arg_chain =>
         /\ routing = "adopted"
         /\ chain = Len(pipes)
         /\ chain > arg_chain

C6_Witness ==
  /\ AUTO_COMPLEXITY_ROUTING
  /\ Streaming
  /\ routing = "raised"
  /\ calls.update_chain_llm = 1
  /\ invoked.chain = arg_chain

\* C7: with routing disabled a turn calls neither the scorer nor the LLM
\* factory nor the rebinding, and invokes the input pipeline.
C7_RoutingDisabledMakesNoCalls ==
  (MidTurn /\ ~AUTO_COMPLEXITY_ROUTING) =>
    /\ calls.assess_complexity = 0
    /\ calls.create_llm = 0
    /\ calls.update_chain_llm = 0
    /\ chain = arg_chain
    /\ Len(pipes) = 1
    /\ invoked # NotInvoked => invoked.chain = arg_chain

C7_Witness ==
  /\ ~AUTO_COMPLEXITY_ROUTING
  /\ Streaming
  /\ arg_question = <<"e","t","h","i","c","a","l">>
  /\ LocateRetriever(pipes[arg_chain]) # "none"
  /\ invoked.chain = arg_chain

\* C8: the question sent to the pipeline is optimize_prompt(question) if
\* token optimization is enabled, did not raise and gave a non-empty text,
\* and the original question in every other case.
C8_SentQuestion ==
  Streaming =>
    /\ invoked.question =
         IF /\ USE_TOKEN_OPTIMIZATION
            /\ optimization # "raised"
            /\ optimize_prompt(arg_question) # <<>>
         THEN optimize_prompt(arg_question)
         ELSE arg_question
    /\ arg_question = <<" ", "\t">> => invoked.question = <<" ", "\t">>
    /\ optimization = "raised" <=> (USE_TOKEN_OPTIMIZATION /\ arg_question = NotAStr)

C8_Witness ==
  /\ Streaming
  /\ USE_TOKEN_OPTIMIZATION
  /\ arg_question = <<"a","?","?">>
  /\ invoked.question = <<"a","?">>

\* The input pipeline has the shape create_chain builds.
BuiltByCreateChain(p) ==
  p = create_chain(p.llm, p.retriever, history_exposes_runnable)

\* C9: with routing enabled and no routing error, for a pipeline built by
\* create_chain the rebinding returns a new pipeline, and the model of the
\* invoked pipeline is the complex model if the query is assessed complex,
\* the general model otherwise.
C9_RoutedModelIsInvoked ==
  (/\ Streaming
   /\ AUTO_COMPLEXITY_ROUTING
   /\ routing # "raised"
   /\ BuiltByCreateChain(pipes[arg_chain])) =>
    /\ invoked.chain # arg_chain
    /\ pipes[invoked.chain].llm.model_name =
         IF assess_complexity(arg_question) THEN COMPLEX_LLM ELSE GENERAL_LLM

C11_RebindKeepsPromptAndHistory ==
  routing = "adopted" =>
    /\ pipes[chain].prompt = pipes[arg_chain].prompt
    /\ pipes[chain].history.wrapped = pipes[arg_chain].history.wrapped
    /\ pipes[chain].history = pipes[arg_chain].history

\* C12: no step of a turn, and no call of update_chain_llm in it, modifies
\* the pipeline object passed into the turn.
C12_InputPipelineNotModified ==
  [][ /\ Len(pipes') >= AppChain
      /\ pipes'[AppChain] = pipes[AppChain] ]_vars

C12_Witness ==
  /\ pc = "done"
  /\ routing = "adopted"
  /\ raised
  /\ pipes[arg_chain].llm.model_name = GENERAL_LLM
  /\ pipes[chain].llm.model_name = COMPLEX_LLM

\* C13: the routing and optimization steps of a turn follow the values the
\* Config flags have during that turn, also when the application changed
\* them after the previous turn.
C13_FlagsReadInEachTurn ==
  MidTurn =>
    /\ routing = "disabled" <=> ~AUTO_COMPLEXITY_ROUTING
    /\ pc # "optimizing" =>
         (optimization = "disabled" <=> ~USE_TOKEN_OPTIMIZATION)

C13_Witness ==
  /\ config_changed
  /\ Streaming
  /\ ~AUTO_COMPLEXITY_ROUTING
  /\ routing = "disabled"
  /\ USE_TOKEN_OPTIMIZATION
  /\ optimization = "adopted"

ScoreNotLowered ==
  fn_result.call.a.scoreNum * fn_result.before.a.scoreDen
    >= fn_result.before.a.scoreNum * fn_result.call.a.scoreDen

\* C16 as stated: for a query assessed simple and every term of
\* TERM_WEIGHTS, the query with the term added scores no lower.
C16_AddedTermNeverLowersScore ==
  (/\ fn = "assess_complexity"
   /\ fn_result.added # <<>>
   /\ ~fn_result.before.is_complex)
  => ScoreNotLowered

\* C16 amended: for a query assessed simple and every term of TERM_WEIGHTS
\* that does not occur in the lower-cased query, the query with a space and
\* the term appended scores no lower.
C16_NewTermNeverLowersScore ==
  (/\ fn = "assess_complexity"
   /\ fn_result.added # <<>>
   /\ ~fn_result.before.is_complex
   /\ ~fn_result.present)
  => ScoreNotLowered

\* A new term whose appending lowers the sentence score and raises the score.
C16_Witness ==
  /\ fn = "assess_complexity"
  /\ fn_result.added # <<>>
  /\ ~fn_result.before.is_complex
  /\ ~fn_result.present
  /\ fn_result.call.a.sentenceNum * fn_result.before.a.sentenceDen
       < fn_result.before.a.sentenceNum * fn_result.call.a.sentenceDen
  /\ fn_result.call.a.scoreNum * fn_result.before.a.scoreDen
       > fn_result.before.a.scoreNum * fn_result.call.a.scoreDen

\* C17: the query of the scenario is assessed complex with a score above
\* 0.30, and its indicator count holds the weight 3.0 of "philosophical"
\* and the topic boost 1.5, the boost rule firing.
C17_PhilosophicalQueryIsBoosted ==
  (fn = "assess_complexity" /\ fn_input = PhilosophicalQuery) =>
    /\ fn_result.call.is_complex
    /\ 10 * fn_result.call.a.scoreNum > 3 * fn_result.call.a.scoreDen
    /\ fn_result.call.topic_boost
    /\ fn_result.call.a.indicator_count >= 30 + TopicBoost

\* C18: get_appropriate_llm makes one request to the factory, for the
\* complex model exactly when the score is above 0.30 (a score of exactly
\* 0.30 asks for the general model), and returns the flag assess_complexity
\* returns for the query.
C18_RouterRequestsTierOfScore ==
  fn = "get_appropriate_llm" =>
    LET o       == fn_result.observed
        a       == Assessment(fn_input)
        above   == IF 10 * a.scoreNum = 3 * a.scoreDen
                   THEN FloatLess(FloatQuotient(30, 100),
                                  complexity_score(fn_input))
                   ELSE 10 * a.scoreNum > 3 * a.scoreDen
    IN  /\ Len(o.requests) = 1
        /\ o.requests[1] = above
        /\ o.outcome = "returned" =>
             /\ o.is_complex = assess_complexity(fn_input)
             /\ o.llm.model_name = IF above THEN COMPLEX_LLM ELSE GENERAL_LLM

C18_Witness ==
  /\ fn = "get_appropriate_llm"
  /\ fn_input = ThresholdQuery
  /\ 10 * Assessment(fn_input).scoreNum = 3 * Assessment(fn_input).scoreDen
  /\ complexity_score(fn_input) = FloatQuotient(30, 100)
  /\ fn_result.observed.outcome = "returned"
  /\ fn_result.observed.requests = << FALSE >>
  /\ fn_result.observed.llm.model_name = GENERAL_LLM

\* C19: an error of the factory leaves get_appropriate_llm as it was
\* raised; the caller gets no model.
C19_FactoryErrorPropagates ==
  (fn = "get_appropriate_llm" /\ fn_result.factory # "none") =>
    /\ fn_result.observed.outcome = "raised"
    /\ fn_result.observed.error = fn_result.factory
    /\ fn_result.observed.llm = "none"

C19_Witness ==
  /\ fn = "get_appropriate_llm"
  /\ fn_result.factory = "ValidationError"
  /\ fn_result.observed.outcome = "raised"
  /\ fn_result.observed.requests = << TRUE >>

\* C20: optimize_prompt applied to its own result returns that result.
C20_OptimizeIsIdempotent ==
  (fn = "optimize_prompt" /\ fn_result.applications = 2) =>
    fn_result.value = fn_input

C20_Witness ==
  /\ fn = "optimize_prompt"
  /\ fn_result.applications = 2
  /\ fn_result.original # fn_result.value
  /\ Contains(<<".", ".", ".">>, fn_result.value)
  /\ ~Contains(<<".", ".", ".">>, fn_result.original)

\* What the character at position i of x contributes to the normalised text:
\* a whitespace run contributes one space at its first character, unless the
\* run is at either end of x; a run of '.' contributes '.' when it is one
\* character long and '...' otherwise, at its first character; a run of '!'
\* or of '?' contributes its first character; any other character is kept.
NormalisedAt(x, i) ==
  LET c     == x[i]
      prev  == IF i > 1 THEN x[i - 1] ELSE ""
      next  == IF i < Len(x) THEN x[i + 1] ELSE ""
      inner == /\ \E j \in 1..(i - 1) : x[j] \notin Whitespace
               /\ \E j \in (i + 1)..Len(x) : x[j] \notin Whitespace
  IN  IF c \in Whitespace
      THEN (IF inner /\ prev \notin Whitespace THEN <<" ">> ELSE <<>>)
      ELSE IF c = "."
      THEN (IF prev = "." THEN <<>>
            ELSE IF next = "." THEN <<".", ".", ".">> ELSE <<".">>)
      ELSE IF c \in {"!", "?"}
      THEN (IF prev = c THEN <<>> ELSE << c >>)
      ELSE << c >>

\* The contributions of the positions lo..hi of x, in order.
RECURSIVE NormalisedRange(_, _, _)
NormalisedRange(x, lo, hi) ==
  IF lo > hi THEN <<>>
  ELSE IF lo = hi THEN NormalisedAt(x, lo)
  ELSE LET mid == (lo + hi) \div 2
       IN  NormalisedRange(x, lo, mid) \o NormalisedRange(x, mid + 1, hi)

\* The text the second test prompt is normalised to.
RepeatedPunctuationNormalised ==
  <<"W","h","a","t"," ","i","s"," ","e","m","b","e","d","d","i","n",
    "g","s","?"," ","A","n","d"," ","h","o","w"," ","d","o"," ","t",
    "h","e","y"," ","w","o","r","k","?","!">>

C22_ErrorIsNotResponseText ==
  \A i \in 1..Len(out) :
    /\ out[i].kind \in {"SourceDocuments", "TextDelta", "Error"}
    /\ out[i].kind = "Error" =>
         /\ out[i].pytype # TextDelta("tok").pytype
         /\ \A k \in 1..Len(ask_chain_full_response(out)) :
              ask_chain_full_response(out)[k] # out[i].text


\* The indicators, each once, with its configured weight in tenths.
DistinctIndicators ==
  { << COMPLEXITY_INDICATORS[i],
       TermWeight(COMPLEXITY_INDICATORS[i], DefaultTermWeight) >> :
      i \in 1..Len(COMPLEXITY_INDICATORS) }
  \cup
  { << COMPLEX_PHRASES[i],
       TermWeight(COMPLEX_PHRASES[i], DefaultPhraseWeight) >> :
      i \in 1..Len(COMPLEX_PHRASES) }

RECURSIVE SumOfWeights(_)
SumOfWeights(S) ==
  IF S = {} THEN 0
  ELSE LET x == CHOOSE y \in S : TRUE
       IN  x[2] + SumOfWeights(S \ {x})

\* The weights of the distinct indicators that occur in a lower-cased query.
WeightOfIndicatorsPresent(query) ==
  SumOfWeights({ x \in DistinctIndicators : Contains(x[1], query) })

\* C23: indicatorCount is the sum of the weights of the distinct indicators
\* (terms and phrases) that occur in the lower-cased query, each counted
\* once, plus 1.5 when the topic boost applies; indicatorScore is
\* min(indicatorCount / 6, 1.0).
C23_EachIndicatorCountedOnce ==
  fn = "assess_complexity" =>
    LET call == fn_result.call
    IN  /\ call.a.indicator_count =
             WeightOfIndicatorsPresent(Lower(fn_input))
             + (IF call.topic_boost THEN TopicBoost ELSE 0)
        /\ call.a.indicatorNum = Min(call.a.indicator_count, IndicatorDivisor)


\* C24: a query that matches no indicator term, no indicator phrase and no
\* topic boost is never classified complex, whatever its length and its
\* sentences.
C24_NoIndicatorQueryIsSimple ==
  (/\ fn = "assess_complexity"
   /\ \A x \in DistinctIndicators : ~Contains(x[1], Lower(fn_input))
   /\ ~fn_result.call.topic_boost) =>
    ~fn_result.call.is_complex


\* C25: optimize never lengthens a text: the length of optimize(x) is at most
\* the length of x.
C25_OptimizeNeverLengthens ==
  (fn = "optimize_prompt" /\ fn_result.applications = 1) =>
    Len(fn_result.value) <= Len(fn_input)


\* C27: truncate_text(text, max_length) returns the text unchanged when
\* len(text) <= max_length and otherwise a text of at most max_length
\* characters, for every text and every max_length >= 0.
C27_TruncatedFitsMaxLength ==
  fn = "truncate_text" =>
    IF Len(fn_input) <= fn_result.max_length
    THEN fn_result.value = fn_input
    ELSE Len(fn_result.value) <= fn_result.max_length


\* C26: within a turn routing completes before normalization starts and is
\* computed from the query as received, not from its normalized form: the
\* model of the pipeline routing adopted is the one the router selects for
\* the received query, with token optimization enabled or disabled, also
\* when the question has been replaced by its normalized form and the
\* pipeline is about to be invoked.
C26_TierFromReceivedQuery ==
  /\ optimization # "pending" => routing # "pending"
  /\ routing = "pending" => question = arg_question
  /\ (pc \in {"optimizing", "invoking"} /\ routing = "adopted") =>
       pipes[chain].llm = get_appropriate_llm(arg_question).llm

C26_Witness ==
  /\ pc = "invoking"
  /\ routing = "adopted"
  /\ optimization = "adopted"
  /\ USE_TOKEN_OPTIMIZATION
  /\ arg_question = DoubleSpacedQuery
  /\ question # arg_question
  /\ question = optimize_prompt(arg_question)
  /\ pipes[chain].llm = create_llm(TRUE)
  /\ get_appropriate_llm(question).llm = create_llm(FALSE)


\* C14: no turn of a session (same session id, same pipeline object) is in
\* progress while the stream of another turn of that session is unfinished.
C14_TurnsOfASessionAreSequential ==
  \A b1, b2 \in Browsers :
    (/\ b1 # b2
     /\ browsers[b1].script = "asking"
     /\ browsers[b2].script = "asking"
     /\ browsers[b1].turn.session_id = browsers[b2].turn.session_id)
    => browsers[b1].turn.chain # browsers[b2].turn.chain

====
